---- MODULE Spec2Model ----
(***************************************************************************)
(* Model of the deep-research pipeline: ResearchManager.run and the stage  *)
(* helpers of research_manager.py, driven through Runner.run of            *)
(* agents_local.py.                                                        *)
(*                                                                         *)
(* One action is one step of the run between two points where the outside  *)
(* world answers: a completion call of a stage returning or failing.       *)
(* Runner.run contains no await: every completion call is a synchronous    *)
(* call made on the event-loop thread, so a stage invocation occupies the  *)
(* loop until the completion service answers.                              *)
(*                                                                         *)
(* Texts are sequences of blocks ("# Report", "body", "audit", "sig", a    *)
(* run of whitespace "ws"); concatenation of strings is concatenation of   *)
(* block sequences.                                                        *)
(*                                                                         *)
(* The helpers that are pure functions of their arguments (Runner.run per  *)
(* agent, the send_email tool, the chunk classifier of the UI handler) are *)
(* also exercised one call at a time, over a wider set of inputs, by the   *)
(* specification UnitSpec.                                                 *)
(***************************************************************************)
EXTENDS Integers, Sequences, FiniteSets, TLC

VARIABLES
    pc,            \* position of the UI entry point and of ResearchManager.run
    requested,     \* the value the caller passed as number of searches
    num_searches,  \* the local num_searches (clamped once past line 24 / 620)
    send_email,    \* the send_email argument
    events,        \* the chunks yielded by run, in order
    history,       \* program-order log: invocations, resolutions, artifact
    stage,         \* status of the planner, writer, critic and email calls
    plan,          \* search_plan.searches (item ids, planner order)
    tasks,         \* one record per search task created by perform_searches
    completed,     \* task ids in completion order (asyncio.as_completed)
    search_results,\* the list returned by perform_searches
    draft,         \* final_report: the writer's markdown body
    report,        \* report.markdown_report
    audit,         \* what audit_report handed back to run
    timer,         \* the 60 second budget of asyncio.wait_for
    email_result,  \* final_output of the email agent's Runner.run
    sends,         \* number of calls of the send_email tool
    planner_out,   \* the searches of the planner's final_output, untruncated
    trail,         \* the tier outputs seen by the search() call last executed
    call,          \* UnitSpec: the helper called last and its argument
    ret,           \* UnitSpec: what that call returned or raised
    ui,            \* UiSpec: the UI handler's locals and the chunks it received
    duo,           \* DuoSpec: two runs on one thread, the shared planner
                   \* agent and the thread-local trace context
    poll           \* PollSpec: the polling loop of run_assistant_flow

runvars == <<pc, requested, num_searches, send_email, events, history, stage,
             plan, tasks, completed, search_results, draft, report, audit,
             timer, email_result, sends, planner_out, trail>>

vars == <<runvars, call, ret, ui, duo, poll>>

----------------------------------------------------------------------------
(* Bounds of the model *)

MaxBelowZero == 1

MaxRequested == 6

MaxPlannerItems == 6

\* Characters by which a markdown body may exceed the summary limit.
MaxMarkdownOver == 1

\* Section markers of one level in a chunk.
MaxMarkers == 2

\* Stripped length of a short chunk.
ShortChunkChars == 40

\* Tool calls in one completion of the email agent.
MaxToolCalls == 2

----------------------------------------------------------------------------
(* Helpers *)

Min(a, b) == IF a < b THEN a ELSE b

Max(a, b) == IF a > b THEN a ELSE b

Ev(k) == [kind |-> k, text |-> <<>>]

Art(t) == [kind |-> "artifact", text |-> t]

Count(k) == Cardinality({i \in DOMAIN events : events[i].kind = k})

Pos(h) == IF \E i \in DOMAIN history : history[i] = h
          THEN CHOOSE i \in DOMAIN history : history[i] = h
          ELSE 0

Happened(h) == Pos(h) > 0

Stages == {"planner", "writer", "critic", "email"}

----------------------------------------------------------------------------
(* research_manager.py: pure pieces of run and its helpers *)

MinSearches == 1

MaxSearches == 5

\* A clamp that forgets the upper limit.
Clamp_NoUpper(n) == Max(MinSearches, n)

Clamp(n) == Max(MinSearches, Min(MaxSearches, n))

\* deep_research.py, line 620: the same expression in the UI handler.
UiClamp(n) == Max(MinSearches, Min(MaxSearches, n))

\* A truncation that keeps the tail of the planner's list.
Truncate_Last(items, n) ==
    IF Len(items) > n THEN SubSeq(items, Len(items) - n + 1, Len(items)) ELSE items

\* No truncation at all.
Truncate_None(items, n) == items

Truncate(items, n) == IF Len(items) > n THEN SubSeq(items, 1, n) ELSE items

Heading == "# Report"

Blank == "ws"

\* str.strip: leading and trailing whitespace removed.
RECURSIVE LStrip(_)
LStrip(t) == IF t # <<>> /\ Head(t) = Blank THEN LStrip(Tail(t)) ELSE t

RECURSIVE RStrip(_)
RStrip(t) ==
    IF t # <<>> /\ t[Len(t)] = Blank THEN RStrip(SubSeq(t, 1, Len(t) - 1)) ELSE t

Strip(t) == RStrip(LStrip(t))

\* str.startswith("# Report")
StartsWithHeading(t) == Len(t) > 0 /\ t[1] = Heading

\* run, lines 73-76: display_report.
InjectHeading(t) ==
    IF t # <<>> /\ ~StartsWithHeading(Strip(t)) THEN <<Heading>> \o t ELSE t

\* The signature block carries the UTC time of the call, to the second:
\* "sig" is the block written at the second of a run's first call of
\* _add_report_signature, "sig_later" the block written once the clock
\* shows a later second.
Signature(later) == IF later THEN "sig_later" ELSE "sig"

Signatures == {Signature(l) : l \in BOOLEAN}

\* The signature put in front of the text instead of after it.
AddSignature_InFront(t, later) == <<Signature(later)>> \o t

AddSignature(t, later) == t \o <<Signature(later)>>

\* _add_report_signature("", query).lstrip()
SignatureOnly(later) == LStrip(AddSignature(<<>>, later))

----------------------------------------------------------------------------
(* agents_local.py: Runner.run, one branch per agent, and RunnerResult.    *)
(* A completion response is a record [kind, k, md, tool]; the fields a     *)
(* kind does not use are fixed.                                            *)

Resp(kind, k, md, tool) == [kind |-> kind, k |-> k, md |-> md, tool |-> tool]

Drafts == {<<"body">>, <<Heading, "body">>, <<Blank, Heading, "body">>}

PlannerResponses ==
    {Resp(x, 0, <<>>, "none") : x \in {"error", "empty", "malformed"}}
    \cup {Resp("plan", n, <<>>, "none") : n \in 0..MaxPlannerItems}

SearchResponses ==
    {Resp(x, 0, <<>>, "none") :
        x \in {"error", "sufficient", "insufficient", "short"}}

\* Line 574: the limit of a derived short_summary.
SummaryLimit == 200

TextLengths == {1, SummaryLimit} \cup (SummaryLimit + 1)..(SummaryLimit + MaxMarkdownOver)

\* How a string field and the list field appear in the writer's JSON.
FieldStates == {"missing", "null", "empty", "text"}

ListStates == {"missing", "null", "list", "scalar"}

\* A completion of the writer: kind, the markdown_report field (state, text
\* md of k characters), the length raw of the whole content, and the states
\* of short_summary and follow_up_questions.
WriterResp(kind, mdf, md, k, raw, sf, ff) ==
    [kind |-> kind, md_field |-> mdf, md |-> md, k |-> k, raw |-> raw,
     summary_field |-> sf, followups_field |-> ff]

WriterFailures ==
    {WriterResp(x, "missing", <<>>, 0, 0, "missing", "missing") :
        x \in {"error", "empty", "malformed"}}

\* The completions the run is driven with: complete JSON objects.
WriterResponses ==
    WriterFailures
    \cup {WriterResp("json", "text", d, 1, 3, "text", "list") : d \in Drafts}

\* Every shape of a well-formed JSON object the writer branch handles.
UnitWriterResponses ==
    WriterFailures
    \cup {WriterResp("json", "text", d, n, n + 2, sf, ff) :
            d \in Drafts, n \in TextLengths, sf \in FieldStates, ff \in ListStates}
    \cup {WriterResp("json", mdf, <<>>, 0, n, sf, ff) :
            mdf \in FieldStates \ {"text"}, n \in TextLengths,
            sf \in FieldStates, ff \in ListStates}

UnitSearchResponses == {Resp(x, 0, <<>>, "none") : x \in {"error", "empty", "text"}}

CriticResponses ==
    {Resp(x, 0, <<>>, "none") : x \in {"error", "empty", "text"}}

\* What the send_email tool meets: credentials missing, the provider
\* answering 200 or another status (whose body may not parse), or the
\* provider client raising.
MailEnvs ==
    {"no_credentials", "http_200", "http_other", "http_other_bad_body",
     "provider_raises"}

EmailResponses ==
    {Resp(x, 0, <<>>, "none") : x \in {"error", "no_tool_call", "bad_args"}}
    \cup {Resp("tool_call", k, <<>>, e) : k \in 1..MaxToolCalls, e \in MailEnvs}

\* Runner.run has no suspension point: its completion calls are synchronous.
RunnerSuspends == FALSE

\* RunnerResult.final_output_as: the object itself when it already has the
\* class, the class built from a mapping, the raw output otherwise.
FinalOutputAs(out, cls) ==
    IF out = cls THEN out ELSE IF out = "dict" THEN cls ELSE out

\* Planner branch: a WebSearchPlan of the returned items, or an exception.
RunnerPlanner(resp) ==
    IF resp.kind = "plan"
    THEN [ok |-> TRUE, out |-> "WebSearchPlan", searches |-> [i \in 1..resp.k |-> i]]
    ELSE [ok |-> FALSE, out |-> "raised", searches |-> <<>>]

\* Search branch, lines 475-481: without tool calls the message content is
\* the summary, and a fixed text stands in for absent content.
RunnerSearch(resp) ==
    CASE resp.kind = "error" -> [ok |-> FALSE, out |-> "raised"]
      [] resp.kind = "empty" -> [ok |-> TRUE, out |-> "fallback_summary"]
      [] OTHER               -> [ok |-> TRUE, out |-> "summary"]

\* Line 457: the bound of the search branch's loop.
MaxIterations == 5

\* A completion of the search agent that carries tool calls: the last of
\* them names web_search, or none of them names a function the branch knows.
ToolKinds == {"web_search", "other_tool"}

FinalKinds == {"error", "empty", "text"}

\* The completions one invocation of the search agent can receive, in
\* order: tool-call completions, ended by a completion without tool calls
\* or a failed call, or going on until the bound is reached.
SearchConversations ==
    UNION {{pre \o <<t>> : pre \in [1..(n - 1) -> ToolKinds], t \in FinalKinds} :
            n \in 1..MaxIterations}
    \cup [1..MaxIterations -> ToolKinds]

\* Lines 483-508: what the last message of the conversation is after a
\* completion with tool calls; a web_search call appends its simulated
\* result, an unknown function appends nothing and leaves the assistant
\* message (content None) last.
LastMessageAfter(kind) == IF kind = "web_search" THEN "tool_result" ELSE "none"

\* Search branch, lines 457-513: the loop over completions.
RECURSIVE SearchLoop(_, _, _)
SearchLoop(seq, i, last) ==
    IF i = MaxIterations
    THEN [ok |-> TRUE, out |-> last, calls |-> i]
    ELSE LET c == Head(seq)
         IN  IF c \in ToolKinds
             THEN SearchLoop(Tail(seq), i + 1, LastMessageAfter(c))
             ELSE [ok |-> RunnerSearch(Resp(c, 0, <<>>, "none")).ok,
                   out |-> RunnerSearch(Resp(c, 0, <<>>, "none")).out,
                   calls |-> i + 1]

RunnerSearchLoop(seq) == SearchLoop(seq, 0, "user_input")

\* The whole content of the completion used as markdown.
RawContent == <<"raw">>

GivenSummary == [src |-> "given", take |-> 0, ellipsis |-> FALSE]

\* A derived summary that is cut without the ellipsis.
DeriveSummary_NoEllipsis(n) ==
    [src |-> "markdown", take |-> Min(n, SummaryLimit), ellipsis |-> FALSE]

\* Line 574: the first 200 characters of the markdown and "..." when it is
\* longer, the whole markdown otherwise.
DeriveSummary(n) ==
    [src |-> "markdown", take |-> Min(n, SummaryLimit), ellipsis |-> n > SummaryLimit]

\* Lines 558-565: follow_up_questions made a list.
NormalizeFollowUps(ff) ==
    CASE ff \in {"missing", "null"} -> "empty_list"
      [] ff = "scalar"              -> "list_of_one_string"
      [] OTHER                      -> "list"

\* Writer branch: a ReportData built from the JSON object, its missing
\* fields filled in; an exception for a failed call, absent content or
\* content that is not JSON.
RunnerWriter(resp) ==
    IF resp.kind = "json"
    THEN LET fill == resp.md_field # "text"
             n    == IF fill THEN resp.raw ELSE resp.k
         IN  [ok |-> TRUE, out |-> "ReportData",
              md |-> IF fill THEN RawContent ELSE resp.md,
              chars |-> n,
              short_summary |-> IF resp.summary_field = "text"
                                THEN GivenSummary ELSE DeriveSummary(n),
              follow_up_questions |-> NormalizeFollowUps(resp.followups_field)]
    ELSE [ok |-> FALSE, out |-> "raised", md |-> <<>>, chars |-> 0,
          short_summary |-> GivenSummary, follow_up_questions |-> "none"]

\* The critic agent has no tools and its output_type is not handled by a
\* branch of its own: it takes the generic fallback, which returns the
\* message content (or "") as a plain string.
RunnerCritic(resp) ==
    IF resp.kind = "error"
    THEN [ok |-> FALSE, out |-> "raised"]
    ELSE [ok |-> TRUE, out |-> "str"]

\* A tool that takes any answer of the provider for a delivery.
SendEmailTool_AnyAnswer(env) ==
    [raised |-> FALSE,
     status |-> IF env \in {"http_200", "http_other", "http_other_bad_body"}
                THEN "success" ELSE "error",
     message |-> CASE env = "no_credentials" -> "not_configured"
                   [] env = "provider_raises" -> "failed_to_send"
                   [] OTHER -> "none",
     contacted |-> env # "no_credentials"]

\* email_agent.py send_email: never raises, maps the provider outcome to a
\* status and, for an error, a message.
SendEmailTool(env) ==
    [raised |-> FALSE,
     status |-> IF env = "http_200" THEN "success" ELSE "error",
     message |-> CASE env = "no_credentials" -> "not_configured"
                   [] env = "http_200" -> "none"
                   [] env = "http_other" -> "api_returned_status"
                   [] OTHER -> "failed_to_send",
     contacted |-> env # "no_credentials"]

\* An email branch that executes every tool call of the completion.
RunnerEmail_EveryCall(resp) ==
    CASE resp.kind = "tool_call" ->
            [ok |-> TRUE, status |-> SendEmailTool(resp.tool).status,
             contacted |-> SendEmailTool(resp.tool).contacted, called |-> resp.k]
      [] resp.kind = "no_tool_call" ->
            [ok |-> TRUE, status |-> "no_tool_called", contacted |-> FALSE, called |-> 0]
      [] OTHER ->
            [ok |-> FALSE, status |-> "raised", contacted |-> FALSE, called |-> 0]

\* Email branch: of the k tool calls of the completion the first matching
\* one is executed and its result returned at once; without a tool call the
\* status is no_tool_called.
RunnerEmail(resp) ==
    CASE resp.kind = "tool_call" ->
            [ok |-> TRUE, status |-> SendEmailTool(resp.tool).status,
             contacted |-> SendEmailTool(resp.tool).contacted, called |-> 1]
      [] resp.kind = "no_tool_call" ->
            [ok |-> TRUE, status |-> "no_tool_called", contacted |-> FALSE, called |-> 0]
      [] OTHER ->
            [ok |-> FALSE, status |-> "raised", contacted |-> FALSE, called |-> 0]

----------------------------------------------------------------------------
(* research_manager.py: plan_searches, search, audit handling *)

PlanSearches(resp, n) ==
    LET r == RunnerPlanner(resp)
    IN  [ok |-> r.ok /\ FinalOutputAs(r.out, "WebSearchPlan") = "WebSearchPlan",
         searches |-> Truncate(r.searches, Clamp(n))]

LastTier == 3

\* A loop that gives the item up at the first failed invocation.
SearchTier_ErrorStops(tier, kind) ==
    CASE kind = "error"        -> "none"
      [] kind = "short"        -> IF tier = LastTier THEN "none" ELSE "next"
      [] kind = "insufficient" -> IF tier = LastTier THEN "return" ELSE "next"
      [] OTHER                 -> "return"

\* A loop that widens the range even after a sufficient output.
SearchTier_AlwaysWiden(tier, kind) ==
    CASE kind = "error"        -> IF tier = LastTier THEN "none" ELSE "next"
      [] kind = "short"        -> IF tier = LastTier THEN "none" ELSE "next"
      [] kind = "insufficient" -> IF tier = LastTier THEN "return" ELSE "next"
      [] OTHER                 -> IF tier = LastTier THEN "return" ELSE "next"

\* A loop that applies the insufficiency test to the last tier as well.
SearchTier_StrictLast(tier, kind) ==
    CASE kind = "error"        -> IF tier = LastTier THEN "none" ELSE "next"
      [] kind = "short"        -> IF tier = LastTier THEN "none" ELSE "next"
      [] kind = "insufficient" -> IF tier = LastTier THEN "none" ELSE "next"
      [] OTHER                 -> "return"

\* One pass of the loop of search(): what the tier's invocation leads to.
SearchTier(tier, kind) ==
    CASE kind = "error"        -> IF tier = LastTier THEN "none" ELSE "next"
      [] kind = "short"        -> IF tier = LastTier THEN "none" ELSE "next"
      [] kind = "insufficient" -> IF tier = LastTier THEN "return" ELSE "next"
      [] OTHER                 -> "return"

\* asyncio.wait_for around audit_report: the timeout can only win while the
\* awaited call is suspended.
WaitFor(outcome, t) ==
    IF t = "expired" /\ RunnerSuspends THEN "timeout" ELSE outcome

\* _format_audit reads the fields of a CriticalAudit.
FormatAuditOk(a) == a = "CriticalAudit"

\* Which branch of the audit try block run takes.
AuditBranch(resp, t) ==
    LET r == RunnerCritic(resp)
        w == WaitFor(IF r.ok THEN "result" ELSE "exception", t)
        a == FinalOutputAs(r.out, "CriticalAudit")
    IN  CASE w = "timeout"   -> "timeout"
          [] w = "exception" -> "error"
          [] OTHER           -> IF FormatAuditOk(a) THEN "success" ELSE "error"

ReadyEvent(se) == IF se THEN Ev("report_ready_email_next") ELSE Ev("report_ready")

EmailPhase(se) == IF se THEN <<Ev("email_phase")>> ELSE <<>>

\* Lines 93-127: audit merged, then streamed.
AuditSuccessPath(d, se, later) ==
    [events |-> <<Ev("critic_done"), ReadyEvent(se),
                  Art(InjectHeading(d) \o <<"audit">> \o SignatureOnly(later))>>
                \o EmailPhase(se),
     report |-> AddSignature(d \o <<"audit">>, FALSE)]

\* Lines 107-127: timeout branch.
AuditTimeoutPath(d, se, later) ==
    [events |-> <<Ev("critic_timeout"), ReadyEvent(se),
                  Art(InjectHeading(d) \o SignatureOnly(later))>>
                \o EmailPhase(se),
     report |-> AddSignature(d, FALSE)]

\* The handler without its second yield of the report.
AuditErrorPath_NoArtifact(d, se, later) ==
    [events |-> <<Ev("critic_error"), ReadyEvent(se)>> \o EmailPhase(se),
     report |-> AddSignature(d, FALSE)]

\* The handler without the signature.
AuditErrorPath_NoSignature(d, se, later) ==
    [events |-> <<Ev("critic_error"), ReadyEvent(se), Art(InjectHeading(d))>>
                \o EmailPhase(se),
     report |-> d]

\* Lines 128-149: any other failure of the audit try block.
AuditErrorPath(d, se, later) ==
    [events |-> <<Ev("critic_error"), ReadyEvent(se),
                  Art(InjectHeading(d) \o SignatureOnly(later))>>
                \o EmailPhase(se),
     report |-> AddSignature(d, FALSE)]

\* The two calls of _add_report_signature on a path read the clock one after
\* the other; later tells whether the second call saw a later second.
AuditPath(branch, d, se, later) ==
    CASE branch = "success" -> AuditSuccessPath(d, se, later)
      [] branch = "timeout" -> AuditTimeoutPath(d, se, later)
      [] OTHER              -> AuditErrorPath(d, se, later)

\* Delivery entered whatever the flag.
ShouldDeliver_Always(se) == TRUE

\* Line 155: the delivery stage is entered only on request.
ShouldDeliver(se) == se

\* Lines 48-51, 64-67, 79-82, 168-170: a fatal stage yields its own error
\* chunk and re-raises; the outer handler yields the fatal chunk.
FatalEvents(k) == <<Ev(k), Ev("fatal")>>

\* A handler that swallows the failure instead of re-raising.
AfterFatal_Continue == "fanout"

\* Where run is after a fatal stage failed.
AfterFatal == "failed"

\* A handler that re-raises the delivery failure.
EmailFailurePath_Fatal ==
    [events |-> <<Ev("email_failed"), Ev("fatal")>>, pc |-> "failed"]

\* Lines 162-164: a failure of send_email is caught.
EmailFailurePath == [events |-> <<Ev("email_failed")>>, pc |-> "done"]

\* The completion chunk yielded before the email agent's own chunk.
EmailReturnPath_Swapped(status) ==
    [events |-> <<Ev("complete"), Ev("email_done")>>, pc |-> "done"]

\* Lines 159-161: send_email returned.
EmailReturnPath(status) ==
    [events |-> <<Ev("email_done"), Ev("complete")>>, pc |-> "done"]

----------------------------------------------------------------------------
(* The state machine *)

H(op, who, id) == [op |-> op, who |-> who, id |-> id]

AllTasksDone == \A i \in DOMAIN tasks : tasks[i].done

\* The event loop runs ready tasks in creation order, and a task whose
\* body never suspends runs to its end before the next one starts.
CurrentTask ==
    CHOOSE i \in DOMAIN tasks :
        ~tasks[i].done /\ \A j \in DOMAIN tasks : j < i => tasks[j].done

\* A join that gives up at the first absent outcome.
RECURSIVE Collect_StopAtAbsent(_)
Collect_StopAtAbsent(order) ==
    IF order = <<>> THEN <<>>
    ELSE LET i == Head(order)
         IN  IF tasks[i].out = "summary"
             THEN <<[item |-> plan[i], tier |-> tasks[i].tier]>>
                  \o Collect_StopAtAbsent(Tail(order))
             ELSE <<>>

\* perform_searches, lines 240-254: results in completion order, None dropped.
RECURSIVE Collect(_)
Collect(order) ==
    IF order = <<>> THEN <<>>
    ELSE LET i == Head(order)
         IN  (IF tasks[i].out = "summary"
              THEN <<[item |-> plan[i], tier |-> tasks[i].tier]>>
              ELSE <<>>) \o Collect(Tail(order))

\* A run that treats an empty outcome list as a failure of the fan-out.
AfterSearches_FailOnEmpty(results) == IF results = <<>> THEN "failed" ELSE "writing"

\* run, lines 59-71: whatever perform_searches returned, the writer is next.
AfterSearches(results) == "writing"

\* A join that returns after the first completed task.
JoinReady_Early == completed # <<>> \/ tasks = <<>>

\* The join of perform_searches is over when every task has been awaited.
JoinReady == AllTasksDone

\* What a caller can pass as number of searches: an integer, or a value
\* int() does not accept (None, a non-numeric string).
RequestedValues ==
    {[numeric |-> TRUE, value |-> n] : n \in (0 - MaxBelowZero)..MaxRequested}
    \cup {[numeric |-> FALSE, value |-> 0]}

\* int(num_searches) raises for a value that is not a number.
IntRaises(r) == ~r.numeric

NoTrail == [task |-> 0, kinds |-> <<>>]

\* No helper has been called on its own.
NoCall == [fn |-> "none"]

NoRet == [raised |-> FALSE]

\* The UI handler is not looked at on its own.
NoUi == [pc |-> "off"]

\* No second run shares the thread.
NoDuo == [pc |-> "off"]

\* run_assistant_flow has not been called.
NoPoll == [pc |-> "off"]

\* A run is entered through the UI handler or by calling
\* ResearchManager.run directly; num_searches holds the value passed.
Init ==
    /\ pc \in {"ui", "start"}
    /\ requested \in RequestedValues
    /\ num_searches = requested.value
    /\ planner_out = <<>>
    /\ trail = NoTrail
    /\ send_email \in BOOLEAN
    /\ events = <<>>
    /\ history = <<>>
    /\ stage = [s \in Stages |-> "idle"]
    /\ plan = <<>>
    /\ tasks = <<>>
    /\ completed = <<>>
    /\ search_results = <<>>
    /\ draft = <<>>
    /\ report = <<>>
    /\ audit = "none"
    /\ timer = "off"
    /\ email_result = "none"
    /\ sends = 0
    /\ call = NoCall
    /\ ret = NoRet
    /\ ui = NoUi
    /\ duo = NoDuo
    /\ poll = NoPoll

\* deep_research.py run, lines 618-630: clamp, then ResearchManager.run.
UiEntry ==
    /\ pc = "ui"
    /\ ~IntRaises(requested)
    /\ num_searches' = UiClamp(num_searches)
    /\ pc' = "start"
    /\ UNCHANGED <<call, ret, ui, duo, poll>>
    /\ UNCHANGED <<requested, send_email, events, history, stage, plan, tasks,
                   completed, search_results, draft, report, audit, timer,
                   email_result, sends, planner_out, trail>>

\* deep_research.py run, line 620: int() raises before the handler's try.
UiEntryRaises ==
    /\ pc = "ui"
    /\ IntRaises(requested)
    /\ pc' = "crashed"
    /\ UNCHANGED <<call, ret, ui, duo, poll>>
    /\ UNCHANGED <<requested, num_searches, send_email, events, history, stage,
                   plan, tasks, completed, search_results, draft, report, audit,
                   timer, email_result, sends, planner_out, trail>>

\* ResearchManager.run, line 24: int() raises before the try of line 25, so
\* the exception leaves the generator before anything is yielded.
StartRaises ==
    /\ pc = "start"
    /\ IntRaises(requested)
    /\ pc' = "crashed"
    /\ UNCHANGED <<call, ret, ui, duo, poll>>
    /\ UNCHANGED <<requested, num_searches, send_email, events, history, stage,
                   plan, tasks, completed, search_results, draft, report, audit,
                   timer, email_result, sends, planner_out, trail>>

\* run, lines 24-44: clamp, opening chunks, planner invoked.
Start ==
    /\ pc = "start"
    /\ ~IntRaises(requested)
    /\ num_searches' = Clamp(num_searches)
    /\ events' = <<Ev("trace_link"), Ev("trace_id"), Ev("start"), Ev("planner_start")>>
    /\ history' = Append(history, H("invoke", "planner", 0))
    /\ stage' = [stage EXCEPT !["planner"] = "inflight"]
    /\ pc' = "planning"
    /\ UNCHANGED <<call, ret, ui, duo, poll>>
    /\ UNCHANGED <<send_email, requested, planner_out, trail, plan, tasks, completed, search_results, draft,
                   report, audit, timer, email_result, sends>>

\* run, lines 44-58 and 48-51: the planner's completion call resolves.
PlannerResolves ==
    /\ pc = "planning"
    /\ \E resp \in PlannerResponses :
        LET r == PlanSearches(resp, num_searches)
        IN  IF r.ok
            THEN /\ plan' = r.searches
                 /\ planner_out' = RunnerPlanner(resp).searches
                 /\ events' = events
                        \o <<Ev("planner_done"), Ev("search_phase"), Ev("search_start")>>
                        \o [i \in 1..Len(r.searches) |-> Ev("search_item")]
                 /\ history' = Append(history, H("resolve", "planner", 0))
                 /\ stage' = [stage EXCEPT !["planner"] = "returned"]
                 /\ pc' = "fanout"
            ELSE /\ plan' = plan
                 /\ planner_out' = planner_out
                 /\ events' = events \o FatalEvents("error_planning")
                 /\ history' = Append(history, H("resolve", "planner", 0))
                 /\ stage' = [stage EXCEPT !["planner"] = "raised"]
                 /\ pc' = AfterFatal
    /\ UNCHANGED <<call, ret, ui, duo, poll>>
    /\ UNCHANGED <<num_searches, send_email, requested, trail, tasks, completed,
                   search_results, draft, report, audit, timer, email_result,
                   sends>>

\* perform_searches, line 238: one task per plan item, all created before
\* the first await.
CreateTasks ==
    /\ pc = "fanout"
    /\ tasks' = [i \in 1..Len(plan) |-> [tier |-> 1, done |-> FALSE, out |-> "pending"]]
    /\ history' = history \o [i \in 1..Len(plan) |-> H("create", "search", i)]
    /\ pc' = "searching"
    /\ UNCHANGED <<call, ret, ui, duo, poll>>
    /\ UNCHANGED <<num_searches, send_email, requested, planner_out, trail, events, stage, plan, completed,
                   search_results, draft, report, audit, timer, email_result, sends>>

\* run, lines 64-67: the fan-out call itself raises (task creation fails).
FanOutRaises ==
    /\ pc = "fanout"
    /\ events' = events \o FatalEvents("error_searching")
    /\ history' = Append(history, H("raise", "search", 0))
    /\ pc' = AfterFatal
    /\ UNCHANGED <<call, ret, ui, duo, poll>>
    /\ UNCHANGED <<num_searches, send_email, requested, planner_out, trail, stage, plan, tasks, completed,
                   search_results, draft, report, audit, timer, email_result, sends>>

\* search, lines 271-326: one tier's invocation of the search agent resolves.
SearchInvoke ==
    /\ pc = "searching"
    /\ ~AllTasksDone
    /\ \E resp \in SearchResponses :
        LET i == CurrentTask
            t == tasks[i]
            o == SearchTier(t.tier, resp.kind)
        IN  /\ trail' = IF trail.task = i
                        THEN [trail EXCEPT !.kinds = Append(@, resp.kind)]
                        ELSE [task |-> i, kinds |-> <<resp.kind>>]
            /\ CASE o = "next" ->
                    /\ tasks' = [tasks EXCEPT ![i].tier = t.tier + 1]
                    /\ UNCHANGED <<completed, history>>
                 [] o = "return" ->
                    /\ tasks' = [tasks EXCEPT ![i].done = TRUE, ![i].out = "summary"]
                    /\ completed' = Append(completed, i)
                    /\ history' = Append(history, H("resolve", "search", i))
                 [] OTHER ->
                    /\ tasks' = [tasks EXCEPT ![i].done = TRUE, ![i].out = "absent"]
                    /\ completed' = Append(completed, i)
                    /\ history' = Append(history, H("resolve", "search", i))
    /\ UNCHANGED <<call, ret, ui, duo, poll>>
    /\ UNCHANGED <<pc, num_searches, send_email, requested, planner_out, events, stage, plan,
                   search_results, draft, report, audit, timer, email_result, sends>>

\* perform_searches returns; run, lines 61-71: writer invoked.
Join ==
    /\ pc = "searching"
    /\ JoinReady
    /\ search_results' = Collect(completed)
    /\ trail' = NoTrail
    /\ events' = events \o <<Ev("search_done"), Ev("write_phase"), Ev("writer_start")>>
    /\ history' = Append(history, H("invoke", "writer", 0))
    /\ stage' = [stage EXCEPT !["writer"] = "inflight"]
    /\ pc' = AfterSearches(Collect(completed))
    /\ UNCHANGED <<call, ret, ui, duo, poll>>
    /\ UNCHANGED <<num_searches, send_email, requested, planner_out, plan, tasks, completed, draft,
                   report, audit, timer, email_result, sends>>

\* run, lines 71-92 and 79-82: the writer's completion call resolves; on
\* success the critic is invoked under wait_for.
WriterResolves ==
    /\ pc = "writing"
    /\ \E resp \in WriterResponses :
        LET r == RunnerWriter(resp)
        IN  IF r.ok
            THEN /\ draft' = r.md
                 /\ report' = r.md
                 /\ events' = events
                        \o <<Ev("writer_done"), Ev("audit_phase"), Ev("critic_start")>>
                 /\ history' = history
                        \o <<H("resolve", "writer", 0), H("invoke", "critic", 0)>>
                 /\ stage' = [stage EXCEPT !["writer"] = "returned", !["critic"] = "inflight"]
                 /\ timer' = "armed"
                 /\ pc' = "auditing"
            ELSE /\ events' = events \o FatalEvents("error_writing")
                 /\ history' = Append(history, H("resolve", "writer", 0))
                 /\ stage' = [stage EXCEPT !["writer"] = "raised"]
                 /\ pc' = AfterFatal
                 /\ UNCHANGED <<draft, report, timer>>
    /\ UNCHANGED <<call, ret, ui, duo, poll>>
    /\ UNCHANGED <<num_searches, send_email, requested, planner_out, trail, plan, tasks, completed,
                   search_results, audit, email_result, sends>>

\* The 60 seconds of wait_for pass while the critic's call is in flight.
BudgetElapses ==
    /\ pc = "auditing"
    /\ timer = "armed"
    /\ timer' = "expired"
    /\ UNCHANGED <<call, ret, ui, duo, poll>>
    /\ UNCHANGED <<pc, num_searches, send_email, requested, planner_out, trail, events, history, stage, plan,
                   tasks, completed, search_results, draft, report, audit,
                   email_result, sends>>

\* run, lines 89-166: the critic's completion call resolves; the report is
\* assembled and streamed, and delivery is started or the run completes.
CriticResolves ==
    /\ pc = "auditing"
    /\ \E resp \in CriticResponses, later \in BOOLEAN :
        LET r == RunnerCritic(resp)
            b == AuditBranch(resp, timer)
            p == AuditPath(b, draft, send_email, later)
            how == IF b = "timeout" THEN "timeout"
                   ELSE IF r.ok THEN "returned" ELSE "raised"
        IN  /\ audit' = IF b = "success" THEN "merged"
                        ELSE IF b = "timeout" THEN "abandoned" ELSE "failed"
            /\ report' = p.report
            /\ IF ShouldDeliver(send_email)
               THEN /\ events' = events \o p.events \o <<Ev("email_start")>>
                    /\ history' = history
                          \o <<H(how, "critic", 0), H("yield", "artifact", 0),
                               H("invoke", "email", 0)>>
                    /\ stage' = [stage EXCEPT !["critic"] = how, !["email"] = "inflight"]
                    /\ pc' = "delivering"
               ELSE /\ events' = events \o p.events \o <<Ev("complete_no_email")>>
                    /\ history' = history
                          \o <<H(how, "critic", 0), H("yield", "artifact", 0)>>
                    /\ stage' = [stage EXCEPT !["critic"] = how]
                    /\ pc' = "done"
    /\ timer' = "off"
    /\ UNCHANGED <<call, ret, ui, duo, poll>>
    /\ UNCHANGED <<num_searches, send_email, requested, planner_out, trail, plan, tasks, completed,
                   search_results, draft, email_result, sends>>

\* run, lines 156-164, and send_email, lines 461-474: the email agent's
\* completion call resolves.
EmailResolves ==
    /\ pc = "delivering"
    /\ \E resp \in EmailResponses :
        LET r == RunnerEmail(resp)
            p == IF r.ok THEN EmailReturnPath(r.status) ELSE EmailFailurePath
        IN  /\ email_result' = r.status
            /\ sends' = sends + r.called
            /\ events' = events \o p.events
            /\ history' = history
                    \o (IF r.called > 0 THEN <<H("send", "email", resp.k)>> ELSE <<>>)
                    \o <<H(IF r.ok THEN "returned" ELSE "raised", "email", 0)>>
            /\ stage' = [stage EXCEPT !["email"] = IF r.ok THEN "returned" ELSE "raised"]
            /\ pc' = p.pc
    /\ UNCHANGED <<call, ret, ui, duo, poll>>
    /\ UNCHANGED <<num_searches, send_email, requested, planner_out, trail, plan, tasks, completed,
                   search_results, draft, report, audit, timer>>

Next ==
    \/ UiEntry
    \/ UiEntryRaises
    \/ StartRaises
    \/ Start
    \/ PlannerResolves
    \/ CreateTasks
    \/ FanOutRaises
    \/ SearchInvoke
    \/ Join
    \/ WriterResolves
    \/ BudgetElapses
    \/ CriticResolves
    \/ EmailResolves

Spec == Init /\ [][Next]_vars

\* Every stage invocation other than the audit eventually returns or fails;
\* nothing is assumed about the critic's completion call.
LiveSpec ==
    /\ Spec
    /\ WF_vars(UiEntry \/ UiEntryRaises)
    /\ WF_vars(Start \/ StartRaises)
    /\ WF_vars(PlannerResolves)
    /\ WF_vars(CreateTasks \/ FanOutRaises)
    /\ WF_vars(SearchInvoke)
    /\ WF_vars(Join)
    /\ WF_vars(WriterResolves)
    /\ WF_vars(BudgetElapses)
    /\ WF_vars(EmailResolves)

----------------------------------------------------------------------------
(* The helpers called one at a time *)

\* deep_research.py run, line 641: the thresholds of a long-form chunk.
LongFormChars == 1200

LongFormLines == 15

\* A chunk as the classifier sees it: whether its stripped text starts with
\* "# Report", whether "# Report" occurs in it, its stripped length, its
\* number of newlines, its level-2 and level-3 markers, and which of the
\* phrases "**Query:**" and "## Findings" it contains.
Chunks ==
    {c \in [starts : BOOLEAN, contains : BOOLEAN,
            chars : {0, ShortChunkChars, LongFormChars, LongFormChars + 1},
            lines : {0, LongFormLines - 1, LongFormLines},
            n2 : 0..MaxMarkers, n3 : 0..MaxMarkers,
            phrase : {"none", "query", "findings"}] :
        /\ c.starts => c.contains
        /\ c.phrase = "findings" => c.n2 >= 1
        /\ c.chars = 0 => (~c.contains /\ c.n2 = 0 /\ c.n3 = 0 /\ c.phrase = "none")}

\* deep_research.py run, lines 634-657.  str.count("## ") also counts the
\* "## " inside every "### ".
Classify(c) ==
    IF c.chars = 0
    THEN "skipped"
    ELSE LET has_report_heading == c.starts \/ c.contains
             has_sections == (c.n2 + c.n3 >= 2) \/ (c.n3 >= 2)
             is_long_form == (c.chars > LongFormChars) \/ (c.lines >= LongFormLines)
         IN  IF has_report_heading
             THEN "report"
             ELSE IF is_long_form /\ (has_sections \/ c.phrase # "none")
                  THEN "report"
                  ELSE "status"

\* The class each agent's output_type asks for.
ExpectedClass(role) ==
    CASE role = "planner" -> "WebSearchPlan"
      [] role = "writer"  -> "ReportData"
      [] role = "critic"  -> "CriticalAudit"
      [] OTHER            -> "none"

\* What the caller of Runner.run holds after final_output_as.
Handed(role, r) ==
    [raised |-> ~r.ok, out |-> r.out,
     handed |-> FinalOutputAs(r.out, ExpectedClass(role))]

\* No run is in progress.
NoRun ==
    /\ pc = "ui"
    /\ requested = [numeric |-> TRUE, value |-> MinSearches]
    /\ num_searches = MinSearches
    /\ send_email = FALSE
    /\ events = <<>>
    /\ history = <<>>
    /\ stage = [s \in Stages |-> "idle"]
    /\ plan = <<>>
    /\ tasks = <<>>
    /\ completed = <<>>
    /\ search_results = <<>>
    /\ draft = <<>>
    /\ report = <<>>
    /\ audit = "none"
    /\ timer = "off"
    /\ email_result = "none"
    /\ sends = 0
    /\ planner_out = <<>>
    /\ trail = NoTrail

UnitInit ==
    /\ NoRun
    /\ call = NoCall
    /\ ret = NoRet
    /\ ui = NoUi
    /\ duo = NoDuo
    /\ poll = NoPoll

CallPlanner ==
    /\ \E resp \in PlannerResponses :
        /\ call' = [fn |-> "planner", arg |-> resp]
        /\ ret' = Handed("planner", RunnerPlanner(resp))
    /\ UNCHANGED <<runvars, ui, duo, poll>>

CallSearcher ==
    /\ \E resp \in UnitSearchResponses :
        /\ call' = [fn |-> "search", arg |-> resp]
        /\ ret' = Handed("search", RunnerSearch(resp))
    /\ UNCHANGED <<runvars, ui, duo, poll>>

CallSearchLoop ==
    /\ \E seq \in SearchConversations :
        LET r == RunnerSearchLoop(seq)
        IN  /\ call' = [fn |-> "search_loop", arg |-> seq]
            /\ ret' = [raised |-> ~r.ok, out |-> r.out, calls |-> r.calls]
    /\ UNCHANGED <<runvars, ui, duo, poll>>

CallWriter ==
    /\ \E resp \in UnitWriterResponses :
        LET r == RunnerWriter(resp)
        IN  /\ call' = [fn |-> "writer", arg |-> resp]
            /\ ret' = [raised |-> ~r.ok, out |-> r.out,
                       handed |-> FinalOutputAs(r.out, ExpectedClass("writer")),
                       md |-> r.md, chars |-> r.chars,
                       short_summary |-> r.short_summary,
                       follow_up_questions |-> r.follow_up_questions]
    /\ UNCHANGED <<runvars, ui, duo, poll>>

CallCritic ==
    /\ \E resp \in CriticResponses :
        /\ call' = [fn |-> "critic", arg |-> resp]
        /\ ret' = Handed("critic", RunnerCritic(resp))
    /\ UNCHANGED <<runvars, ui, duo, poll>>

CallDeliverer ==
    /\ \E resp \in EmailResponses :
        LET r == RunnerEmail(resp)
        IN  /\ call' = [fn |-> "email", arg |-> resp]
            /\ ret' = [raised |-> ~r.ok, out |-> "dict", status |-> r.status]
    /\ UNCHANGED <<runvars, ui, duo, poll>>

CallSendEmailTool ==
    /\ \E env \in MailEnvs :
        /\ call' = [fn |-> "send_email", arg |-> env]
        /\ ret' = SendEmailTool(env)
    /\ UNCHANGED <<runvars, ui, duo, poll>>

CallClassify ==
    /\ \E c \in Chunks :
        /\ call' = [fn |-> "classify", arg |-> c]
        /\ ret' = [raised |-> FALSE, class |-> Classify(c)]
    /\ UNCHANGED <<runvars, ui, duo, poll>>

UnitNext ==
    \/ CallPlanner
    \/ CallSearcher
    \/ CallSearchLoop
    \/ CallWriter
    \/ CallCritic
    \/ CallDeliverer
    \/ CallSendEmailTool
    \/ CallClassify

UnitSpec == UnitInit /\ [][UnitNext]_vars

----------------------------------------------------------------------------
(* The UI handler consuming the stream of one run *)

\* The most search items one stream lists.
MaxUiItems == 2

\* The most blank chunks handed to the handler in one stream.
MaxBlanks == 1

\* A chunk is the yield that produced it and whether the text interpolated
\* into it contains "# Report".
Chunk(kind, quoted) == [kind |-> kind, quoted |-> quoted]

\* deep_research.py run, line 623: the initial report text.
Placeholder == Chunk("placeholder", FALSE)

\* Lines 622 and 624: the empty string.
EmptyText == Chunk("empty", FALSE)

\* Line 631: a chunk that is empty or whitespace only.
BlankChunk == Chunk("blank", FALSE)

\* research_manager.py run: the order of the yields.  The critic's
\* invocation always ends in the handler of line 128.
Follows(kind, mail, items) ==
    CASE kind = "none"          -> {"trace_link"}
      [] kind = "trace_link"    -> {"trace_id"}
      [] kind = "trace_id"      -> {"start"}
      [] kind = "start"         -> {"planner_start"}
      [] kind = "planner_start" -> {"planner_done", "error_planning"}
      [] kind = "planner_done"  -> {"search_phase"}
      [] kind = "search_phase"  -> {"search_start"}
      [] kind \in {"search_start", "search_item"} ->
            (IF items < MaxUiItems THEN {"search_item"} ELSE {})
                \cup {"search_done", "error_searching"}
      [] kind = "search_done"   -> {"write_phase"}
      [] kind = "write_phase"   -> {"writer_start"}
      [] kind = "writer_start"  -> {"writer_done", "error_writing"}
      [] kind = "writer_done"   -> {"audit_phase"}
      [] kind = "audit_phase"   -> {"critic_start"}
      [] kind = "critic_start"  -> {"critic_error"}
      [] kind = "critic_error"  ->
            {IF mail THEN "report_ready_email_next" ELSE "report_ready"}
      [] kind \in {"report_ready", "report_ready_email_next"} -> {"artifact"}
      [] kind = "artifact"      ->
            {IF mail THEN "email_phase" ELSE "complete_no_email"}
      [] kind = "email_phase"   -> {"email_start"}
      [] kind = "email_start"   -> {"email_done", "email_failed"}
      [] kind = "email_done"    -> {"complete"}
      [] kind \in {"error_planning", "error_searching", "error_writing"} ->
            {"fatal"}
      [] OTHER                  -> {}

\* research_manager.py run, lines 43, 57 and 143: the planner's progress
\* chunk interpolates the user's query, a search item the planned query,
\* and the artifact carries the query inside its signature.
Quoted(kind, query, planned) ==
    CASE kind \in {"planner_start", "artifact"} -> query
      [] kind = "search_item"                   -> planned
      [] OTHER                                  -> FALSE

\* What the classifier sees of a chunk.  The artifact starts with the
\* heading and ends with the signature, whose "## Report Signature" line
\* contains "# Report" and whose lines number more than fifteen; every
\* other yield is a line or two of fixed text around what it interpolates.
Features(chunk) ==
    CASE chunk.kind = "blank" ->
            [starts |-> FALSE, contains |-> FALSE, chars |-> 0, lines |-> 0,
             n2 |-> 0, n3 |-> 0, phrase |-> "none"]
      [] chunk.kind = "artifact" ->
            [starts |-> TRUE, contains |-> TRUE, chars |-> LongFormChars,
             lines |-> LongFormLines, n2 |-> 1, n3 |-> 0, phrase |-> "none"]
      [] OTHER ->
            [starts |-> FALSE, contains |-> chunk.quoted,
             chars |-> ShortChunkChars, lines |-> 0,
             n2 |-> 0, n3 |-> 0, phrase |-> "none"]

Render_Prepend(frame, chunk) ==
    LET class == Classify(Features(chunk))
    IN  CASE class = "skipped" -> frame
          [] class = "report"  -> [frame EXCEPT !.report = chunk, !.store = chunk]
          [] OTHER             -> [frame EXCEPT !.status = <<chunk>> \o @]

\* deep_research.py run, lines 631-657: the body of the async for.
Render(frame, chunk) ==
    LET class == Classify(Features(chunk))
    IN  CASE class = "skipped" -> frame
          [] class = "report"  -> [frame EXCEPT !.report = chunk, !.store = chunk]
          [] OTHER             -> [frame EXCEPT !.status = Append(@, chunk)]

\* The handler has been called with a query, which may contain the text
\* "# Report", and with the email switch; lines 622-624 have set its locals.
UiInit ==
    /\ NoRun
    /\ call = NoCall
    /\ ret = NoRet
    /\ duo = NoDuo
    /\ poll = NoPoll
    /\ \E q \in BOOLEAN, m \in BOOLEAN :
            ui = [pc |-> "idle", query |-> q, mail |-> m, sent |-> "none",
                  items |-> 0, blanks |-> 0, got |-> <<>>,
                  frame |-> [status |-> <<>>, report |-> Placeholder,
                             store |-> EmptyText]]

\* Lines 620-627: the locals are set and the first frame is yielded.
UiOpen ==
    /\ ui.pc = "idle"
    /\ ui' = [ui EXCEPT !.pc = "streaming"]
    /\ UNCHANGED <<runvars, call, ret, duo, poll>>

\* Lines 630-657: ResearchManager.run yields its next chunk and the body of
\* the loop handles it.
Consume ==
    /\ ui.pc = "streaming"
    /\ \E kind \in Follows(ui.sent, ui.mail, ui.items), planned \in BOOLEAN :
        LET chunk == Chunk(kind, Quoted(kind, ui.query, planned))
        IN  ui' = [ui EXCEPT
                     !.sent = kind,
                     !.items = IF kind = "search_item" THEN @ + 1 ELSE @,
                     !.frame = Render(@, chunk),
                     !.got = Append(@, [chunk |-> chunk,
                                        class |-> Classify(Features(chunk))])]
    /\ UNCHANGED <<runvars, call, ret, duo, poll>>

\* Lines 631-632: the loop is handed a blank chunk.  No yield of
\* ResearchManager.run is blank; the guard is the handler's own.
ConsumeBlank ==
    /\ ui.pc = "streaming"
    /\ ui.blanks < MaxBlanks
    /\ ui' = [ui EXCEPT
                 !.blanks = @ + 1,
                 !.frame = Render(@, BlankChunk),
                 !.got = Append(@, [chunk |-> BlankChunk,
                                    class |-> Classify(Features(BlankChunk))])]
    /\ UNCHANGED <<runvars, call, ret, duo, poll>>

\* The generator is exhausted and the handler returns.
UiClose ==
    /\ ui.pc = "streaming"
    /\ Follows(ui.sent, ui.mail, ui.items) = {}
    /\ ui' = [ui EXCEPT !.pc = "ended"]
    /\ UNCHANGED <<runvars, call, ret, duo, poll>>

UiNext ==
    \/ UiOpen
    \/ Consume
    \/ ConsumeBlank
    \/ UiClose

UiSpec == UiInit /\ [][UiNext]_vars

----------------------------------------------------------------------------
(* Two runs interleaved on the event-loop thread *)

\* The largest num_searches a run of this part asks for.
MaxRunSearches == 2

Runs == {1, 2}

\* planner_agent.instructions as the module sets it, and as plan_searches
\* builds it for num_searches = n.
OriginalInstructions == 0

InstructionsFor(n) == n

\* agents_local.py line 54: the thread-local has no trace_id attribute;
\* get_trace_context then returns None.
NoTrace == 0

\* research_manager.py line 26: gen_trace_id gives each run its own id.
TraceId(r) == r

\* The stage a run invokes next, by the stage it invoked last.
NextStage(at) ==
    CASE at = "planned" -> "search"
      [] at = "search"  -> "writer"
      [] OTHER          -> "critic"

RestoreInstructions_Forgotten(original_instructions, current) == current

\* research_manager.py lines 225-227: the finally clause of plan_searches.
RestoreInstructions(original_instructions, current) == original_instructions

\* agents_local.py lines 265-269 and 386-394: what an invocation reads of
\* the trace context and of the agent it is given.
Invocation(stage_name, before, used, after) ==
    [stage |-> stage_name, seen |-> duo.trace,
     before |-> before, used |-> used, after |-> after]

DuoInit ==
    /\ NoRun
    /\ call = NoCall
    /\ ret = NoRet
    /\ ui = NoUi
    /\ poll = NoPoll
    /\ \E ns \in [Runs -> 1..MaxRunSearches] :
            duo = [pc |-> "on",
                   instructions |-> OriginalInstructions,
                   trace |-> NoTrace,
                   run |-> [r \in Runs |-> [at |-> "new", n |-> ns[r], log |-> <<>>]]]

\* research_manager.py lines 24-43 with agents_local.py lines 161-167: the
\* run enters its trace scope and is suspended at a yield inside it.
EnterScope(r) ==
    /\ duo.pc = "on"
    /\ duo.run[r].at = "new"
    /\ duo' = [duo EXCEPT !.trace = TraceId(r), !.run[r].at = "start"]
    /\ UNCHANGED <<runvars, call, ret, ui, poll>>

\* research_manager.py lines 44-50 and 204-230: plan_searches from the
\* save of the instructions to the finally clause.  Runner.run does not
\* suspend, so no other run executes in between.
Plan(r) ==
    /\ duo.pc = "on"
    /\ duo.run[r].at = "start"
    /\ \E ok \in BOOLEAN :
        LET original_instructions == duo.instructions
            used == InstructionsFor(duo.run[r].n)
            after == RestoreInstructions(original_instructions, used)
        IN  duo' = [duo EXCEPT
                      !.instructions = after,
                      !.run[r].log = Append(@, Invocation("planner",
                                        original_instructions, used, after)),
                      !.run[r].at = IF ok THEN "planned" ELSE "plan_failed"]
    /\ UNCHANGED <<runvars, call, ret, ui, poll>>

\* research_manager.py lines 52-130: the invocations of the search agent,
\* the writer and the critic, each between two yields of the run.
Invoke(r) ==
    /\ duo.pc = "on"
    /\ duo.run[r].at \in {"planned", "search", "writer"}
    /\ duo' = [duo EXCEPT
                  !.run[r].log = Append(@, Invocation(NextStage(duo.run[r].at),
                                    duo.instructions, duo.instructions,
                                    duo.instructions)),
                  !.run[r].at = NextStage(@)]
    /\ UNCHANGED <<runvars, call, ret, ui, poll>>

\* agents_local.py lines 168-181: the run leaves its trace scope, after
\* its last stage or on the exception of a failed planner, and the finally
\* clause deletes the attributes of the thread-local.
LeaveScope(r) ==
    /\ duo.pc = "on"
    /\ duo.run[r].at \in {"plan_failed", "critic"}
    /\ duo' = [duo EXCEPT !.trace = NoTrace, !.run[r].at = "closed"]
    /\ UNCHANGED <<runvars, call, ret, ui, poll>>

DuoNext ==
    \E r \in Runs :
        \/ EnterScope(r)
        \/ Plan(r)
        \/ Invoke(r)
        \/ LeaveScope(r)

DuoSpec == DuoInit /\ [][DuoNext]_vars

----------------------------------------------------------------------------
(* The polling loop of run_assistant_flow *)

\* The most requires_action rounds of one remote run.
MaxRounds == 2

\* The most tool calls requested in one round.
MaxCalls == 2

\* assistant_runner.py line 116: the statuses the loop sleeps on.
WaitStatuses == {"queued", "in_progress"}

\* Line 155: the statuses the loop leaves on.
ExitStatuses == {"completed", "cancelled", "failed", "expired"}

\* The statuses a run of the assistants service reports (run.status,
\* line 115): the seven the loop names, and "cancelling" and "incomplete".
RunStatuses ==
    WaitStatuses \cup {"requires_action"} \cup ExitStatuses
        \cup {"cancelling", "incomplete"}

\* Lines 19-36 and 122-143: the assistant declares email_tool only; a
\* requested call names it or a function none of the branches knows.
ToolNames == {"email_tool", "unknown"}

\* Line 122: the tool calls of a round, each with the id the service gave
\* it; no two calls of a run share an id.
Numbered(names, round) ==
    [i \in DOMAIN names |-> [id |-> round * MaxCalls + i, name |-> names[i]]]

\* Lines 139-143: the output of one tool call.
ToolOutput(name) == IF name = "email_tool" THEN "email_result" ELSE "{}"

\* Lines 119-144: one output per requested call, in order.
ToolOutputs(calls) ==
    [i \in DOMAIN calls |->
        [tool_call_id |-> calls[i].id, output |-> ToolOutput(calls[i].name)]]

\* How the service moves a run on its own.
ServiceMoves(status) ==
    CASE status = "queued"          -> {"in_progress", "cancelling", "expired"}
      [] status = "in_progress"     ->
            {"requires_action", "completed", "failed", "incomplete",
             "cancelling", "expired"}
      [] status = "requires_action" -> {"cancelling", "expired"}
      [] status = "cancelling"      -> {"cancelled"}
      [] OTHER                      -> {}

\* Lines 101-111: the thread and the run have been created.
PollInit ==
    /\ NoRun
    /\ call = NoCall
    /\ ret = NoRet
    /\ ui = NoUi
    /\ duo = NoDuo
    /\ poll = [pc |-> "polling", status |-> "queued", seen |-> "none",
               rounds |-> 0, calls |-> <<>>, asked |-> <<>>,
               submitted |-> <<>>, logs |-> 0]

\* The service changes the status of the run.
ServiceStep ==
    /\ poll.pc = "polling"
    /\ \E next \in ServiceMoves(poll.status) :
        /\ next = "requires_action" => poll.rounds < MaxRounds
        /\ \E names \in UNION {[1..k -> ToolNames] : k \in 1..MaxCalls} :
            poll' = [poll EXCEPT
                       !.status = next,
                       !.calls = IF next = "requires_action"
                                 THEN Numbered(names, poll.rounds)
                                 ELSE <<>>]
    /\ UNCHANGED <<runvars, call, ret, ui, duo>>

\* Lines 113-120: the run is queued or in progress; sleep and poll again.
PollWaits ==
    /\ poll.pc = "polling"
    /\ poll.status \in WaitStatuses
    /\ poll' = [poll EXCEPT !.seen = poll.status]
    /\ UNCHANGED <<runvars, call, ret, ui, duo>>

\* Lines 121-154: the round's tool calls are executed and their outputs
\* submitted; the service queues the run again.
PollSubmits ==
    /\ poll.pc = "polling"
    /\ poll.status = "requires_action"
    /\ poll' = [poll EXCEPT
                   !.seen = poll.status,
                   !.asked = poll.calls,
                   !.submitted = ToolOutputs(poll.calls),
                   !.logs = @ + Cardinality({i \in DOMAIN poll.calls :
                                    poll.calls[i].name = "email_tool"}),
                   !.rounds = @ + 1,
                   !.calls = <<>>,
                   !.status = "queued"]
    /\ UNCHANGED <<runvars, call, ret, ui, duo>>

\* Lines 155-162: the loop is left and (markdown_report, logs) returned.
PollExits ==
    /\ poll.pc = "polling"
    /\ poll.status \in ExitStatuses
    /\ poll' = [poll EXCEPT !.seen = poll.status, !.pc = "returned"]
    /\ UNCHANGED <<runvars, call, ret, ui, duo>>

\* Lines 113-156: no branch matches the status; the while loop goes round
\* again at once.
PollSpins ==
    /\ poll.pc = "polling"
    /\ poll.status \notin WaitStatuses \cup {"requires_action"} \cup ExitStatuses
    /\ poll' = [poll EXCEPT !.seen = poll.status]
    /\ UNCHANGED <<runvars, call, ret, ui, duo>>

PollNext ==
    \/ ServiceStep
    \/ PollWaits
    \/ PollSubmits
    \/ PollExits
    \/ PollSpins

PollSpec == PollInit /\ [][PollNext]_vars


----------------------------------------------------------------------------
(* Vocabulary of the properties *)

ArtifactCount == Count("artifact")

ErrorKinds == {"error_planning", "error_searching", "error_writing", "fatal"}

ErrorCount == Cardinality({i \in DOMAIN events : events[i].kind \in ErrorKinds})

DeliveryKinds == {"email_phase", "email_start", "email_done", "email_failed"}

DeliveryEventCount ==
    Cardinality({i \in DOMAIN events : events[i].kind \in DeliveryKinds})

ArtifactText ==
    LET i == CHOOSE j \in DOMAIN events : events[j].kind = "artifact"
    IN  events[i].text

WriterSucceeded == stage["writer"] = "returned"

PastAudit == pc \in {"delivering", "done"}

InFlightStages ==
    {s \in Stages : stage[s] = "inflight"}
    \cup (IF \E i \in DOMAIN tasks : ~tasks[i].done THEN {"search"} ELSE {})

CriticSettledBefore(h) ==
    \E how \in {"returned", "raised", "timeout"} :
        /\ Happened(H(how, "critic", 0))
        /\ Pos(H(how, "critic", 0)) < Pos(h)

----------------------------------------------------------------------------
(* C1: the artifact is never streamed twice, and once a run whose writer   *)
(* succeeded has left the audit (delivery pending, failed, succeeded or    *)
(* disabled) it has streamed the artifact exactly once.                    *)
C1_ExactlyOneArtifact ==
    /\ ArtifactCount <= 1
    /\ (WriterSucceeded /\ PastAudit) => ArtifactCount = 1
    /\ pc = "done" => (WriterSucceeded /\ ArtifactCount = 1)

C1_Witness ==
    /\ pc = "done"
    /\ stage["email"] = "raised"
    /\ ArtifactCount = 1

(* C2: after the planner, the fan-out call or the writer has raised, no    *)
(* later stage has been invoked and no artifact has been streamed.         *)
C2_NoStageAfterFatal ==
    /\ stage["planner"] = "raised" =>
            /\ tasks = <<>> /\ pc # "searching"
            /\ stage["writer"] = "idle" /\ stage["critic"] = "idle"
            /\ stage["email"] = "idle" /\ ArtifactCount = 0
    /\ Happened(H("raise", "search", 0)) =>
            /\ stage["writer"] = "idle" /\ stage["critic"] = "idle"
            /\ stage["email"] = "idle" /\ ArtifactCount = 0
    /\ stage["writer"] = "raised" =>
            /\ stage["critic"] = "idle" /\ stage["email"] = "idle"
            /\ ArtifactCount = 0

C2_Witness ==
    /\ pc = "failed"
    /\ stage["writer"] = "raised"
    /\ Len(search_results) > 0

(* C3: a run that failed in a fatal stage has streamed exactly one error   *)
(* event, and that event is the last of the stream.                        *)
C3_SingleErrorEvent ==
    pc = "failed" =>
        /\ ErrorCount = 1
        /\ events[Len(events)].kind \in ErrorKinds

(* C4: when the audit failed or timed out, exactly one critic warning and  *)
(* no critic-completed event is streamed, the artifact is the draft (with  *)
(* its heading) followed by the signature and nothing else, no fatal event *)
(* is streamed, and the run is in delivery (if requested) or done.         *)
C4_AuditFailureAbsorbed ==
    audit \in {"failed", "abandoned"} =>
        /\ Count("critic_error") + Count("critic_timeout") = 1
        /\ Count("critic_done") = 0
        /\ ArtifactCount = 1
        /\ \E sig \in Signatures :
                ArtifactText \in {draft \o <<sig>>, <<Heading>> \o draft \o <<sig>>}
        /\ \E sig \in Signatures : report = draft \o <<sig>>
        /\ Count("fatal") = 0
        /\ PastAudit
        /\ send_email => stage["email"] # "idle"
        /\ ~send_email => (pc = "done" /\ Count("complete_no_email") = 1)

C4_Witness ==
    /\ audit = "failed"
    /\ stage["critic"] = "returned"
    /\ send_email
    /\ pc = "done"

(* C5: every run that has started its pipeline eventually reaches a        *)
(* terminal state, even when the critic's completion call never resolves.  *)
C5_EventuallyTerminal == (pc = "planning") ~> (pc \in {"done", "failed"})

(* C7: when the deliverer raises, one delivery warning and no fatal event  *)
(* is streamed, the run is done, and the chunks streamed before delivery   *)
(* (the artifact among them) are left as they were.                        *)
C7_DeliveryFailureAbsorbed ==
    /\ [](stage["email"] = "raised" =>
            /\ Count("email_failed") = 1
            /\ Count("fatal") = 0
            /\ Count("email_done") = 0
            /\ pc = "done"
            /\ ArtifactCount = 1)
    /\ [][pc = "delivering" =>
            /\ Len(events') >= Len(events)
            /\ SubSeq(events', 1, Len(events)) = events]_vars

C7_Witness ==
    /\ stage["email"] = "raised"
    /\ pc = "done"
    /\ events[Len(events)].kind = "email_failed"

(* C8: when the email tool returned status error, the finished run has     *)
(* streamed exactly one delivery warning and no fatal event.               *)
C8_ProviderErrorWarned ==
    (pc = "done" /\ email_result = "error") =>
        /\ Count("email_failed") = 1
        /\ Count("fatal") = 0

(* C9: with send_email false the email agent is never invoked, the email   *)
(* tool never called, and no delivery-stage event is streamed.             *)
C9_NoDeliveryWhenDisabled ==
    ~send_email =>
        /\ stage["email"] = "idle"
        /\ ~Happened(H("invoke", "email", 0))
        /\ sends = 0
        /\ DeliveryEventCount = 0
        /\ pc # "delivering"

C9_Witness ==
    /\ ~send_email
    /\ pc = "done"
    /\ ArtifactCount = 1

(* C10: at most one stage is in flight at a time, and in program order the *)
(* planner resolves before any search task is created, every search task   *)
(* resolves before the writer is invoked, the writer resolves before the   *)
(* critic is invoked, the critic is settled before the artifact is         *)
(* streamed, and the artifact is streamed before the deliverer is invoked. *)
C10_StagesSequential ==
    /\ Cardinality(InFlightStages) <= 1
    /\ \A i \in DOMAIN tasks :
            /\ Happened(H("resolve", "planner", 0))
            /\ Pos(H("resolve", "planner", 0)) < Pos(H("create", "search", i))
    /\ Happened(H("invoke", "writer", 0)) =>
            \A i \in DOMAIN tasks :
                /\ Happened(H("resolve", "search", i))
                /\ Pos(H("resolve", "search", i)) < Pos(H("invoke", "writer", 0))
    /\ Happened(H("invoke", "critic", 0)) =>
            /\ Happened(H("resolve", "writer", 0))
            /\ Pos(H("resolve", "writer", 0)) < Pos(H("invoke", "critic", 0))
    /\ (Happened(H("yield", "artifact", 0)) \/ ArtifactCount > 0) =>
            /\ ArtifactCount = 1
            /\ CriticSettledBefore(H("yield", "artifact", 0))
    /\ Happened(H("invoke", "email", 0)) =>
            /\ Happened(H("yield", "artifact", 0))
            /\ Pos(H("yield", "artifact", 0)) < Pos(H("invoke", "email", 0))

C10_Witness ==
    /\ pc = "done"
    /\ stage["email"] = "returned"
    /\ Len(tasks) >= 2
    /\ Len(completed) = Len(tasks)

----------------------------------------------------------------------------
(* Vocabulary of the properties on completion, counts and searches *)

\* Lines 161, 164, 166: the chunks that tell the caller the run is complete
\* (the delivery warning ends with "Research complete.").
CompletionKinds == {"complete", "complete_no_email", "email_failed"}

CompletionCount ==
    Cardinality({i \in DOMAIN events : events[i].kind \in CompletionKinds})

ExpectedCount(v) == IF v < 1 THEN 1 ELSE IF v > 5 THEN 5 ELSE v

PlannerReturned == stage["planner"] = "returned"

Searched == stage["writer"] # "idle"

Occurrences(item) ==
    Cardinality({j \in DOMAIN search_results : search_results[j].item = item})

NotSufficient == {"insufficient", "short", "error"}

C12_EveryExitHasMessage ==
    pc \in {"done", "failed", "crashed"} => Len(events) >= 1

(* C13: once the run is past its clamp, num_searches is the requested      *)
(* value brought into [1,5]; before it, after the UI handler's clamp, one  *)
(* more clamp gives that same value, and clamping again changes nothing.   *)
C13_ClampedCount ==
    /\ pc \notin {"ui", "start", "crashed"} =>
            /\ num_searches = ExpectedCount(requested.value)
            /\ Clamp(num_searches) = num_searches
            /\ UiClamp(num_searches) = num_searches
            /\ Len(plan) <= ExpectedCount(requested.value)
    /\ (pc = "start" /\ requested.numeric) =>
            /\ num_searches \in {requested.value, ExpectedCount(requested.value)}
            /\ Clamp(num_searches) = ExpectedCount(requested.value)

C13_Witness ==
    /\ pc = "planning"
    /\ requested.value > 5
    /\ num_searches = 5

(* C14: for a requested count n in [1,5] and a planner result of k items,  *)
(* the plan is the first min(n, k) planner items in order, and at most n   *)
(* search tasks exist.                                                     *)
C14_PlanIsPrefix ==
    (PlannerReturned /\ requested.value \in 1..5) =>
        LET n == requested.value
            m == Min(n, Len(planner_out))
        IN  /\ Len(plan) = m
            /\ \A i \in 1..m : plan[i] = planner_out[i]
            /\ Len(tasks) <= n
            /\ pc \notin {"fanout", "failed"} => Len(tasks) = m

C14_Witness ==
    /\ pc = "searching"
    /\ requested.value \in 2..4
    /\ Len(planner_out) > requested.value
    /\ Len(tasks) = requested.value

(* C15, as stated: after a successful planning the plan has between 1 and  *)
(* 5 items and at most the requested (clamped) count.                      *)
C15_PlanLengthAtLeastOne ==
    PlannerReturned =>
        /\ Len(plan) \in 1..5
        /\ Len(plan) <= num_searches

(* C15, amended: after a successful planning the plan has between 0 and 5  *)
(* items and at most the clamped requested count; it is empty exactly when *)
(* the planner returned no items.                                          *)
C15_PlanLengthBounded ==
    PlannerReturned =>
        /\ Len(plan) \in 0..5
        /\ Len(plan) <= num_searches
        /\ Len(plan) <= ExpectedCount(requested.value)
        /\ (Len(plan) = 0) <=> (Len(planner_out) = 0)

C15_Witness ==
    /\ pc = "searching"
    /\ Len(planner_out) > 5
    /\ Len(plan) = 5

(* C16: the returned outcomes are at most the plan size; every task has    *)
(* run to completion, each task that produced a summary is in the list     *)
(* once and each absent one not at all; an absent item is never raised out *)
(* of perform_searches nor streamed as a chunk of its own.                 *)
C16_FailuresStayLocal ==
    /\ Searched =>
            /\ Len(search_results) <= Len(plan)
            /\ \A i \in DOMAIN tasks :
                    /\ tasks[i].done
                    /\ Occurrences(plan[i]) = IF tasks[i].out = "summary" THEN 1 ELSE 0
    /\ (\E i \in DOMAIN tasks : tasks[i].out = "absent") =>
            /\ ~Happened(H("raise", "search", 0))
            /\ Count("error_searching") = 0
    /\ pc = "searching" =>
            events[Len(events)].kind \in {"search_start", "search_item"}

C16_Witness ==
    /\ pc = "writing"
    /\ \E i, j \in DOMAIN tasks :
            i < j /\ tasks[i].out = "absent" /\ tasks[j].out = "summary"
    /\ Len(search_results) = Len(plan) - 1

(* C17: while the fan-out is still running, an item that has finished with *)
(* a summary is already collected by the time a slower item has gone       *)
(* through a further tier: the slow item does not hold the collection up.  *)
C17_EarlyFinisherCollected ==
    pc = "searching" =>
        \A i, j \in DOMAIN tasks :
            (/\ tasks[i].done
             /\ tasks[i].out = "summary"
             /\ ~tasks[j].done
             /\ tasks[j].tier > 1) => Occurrences(plan[i]) = 1

(* C18: the search() call last executed has invoked the tiers in order,    *)
(* one invocation per tier and at most three; it went on to the next tier  *)
(* only after an output that was not sufficient, always did so after an    *)
(* insufficient output of the first two tiers, and returned the first      *)
(* sufficient output without a further invocation.                         *)
C18_TierProgression ==
    trail.task # 0 =>
        LET t == tasks[trail.task]
            k == trail.kinds
        IN  /\ Len(k) \in 1..3
            /\ t.tier = IF t.done THEN Len(k) ELSE Len(k) + 1
            /\ \A n \in 1..(Len(k) - 1) : k[n] \in NotSufficient
            /\ ~t.done => k[Len(k)] \in NotSufficient
            /\ (Len(k) < 3 /\ k[Len(k)] \in {"insufficient", "short"}) => ~t.done
            /\ k[Len(k)] = "sufficient" => (t.done /\ t.out = "summary")

C18_Witness ==
    /\ trail.task # 0
    /\ trail.kinds = <<"short", "sufficient">>
    /\ tasks[trail.task].done
    /\ tasks[trail.task].tier = 2

(* C19: when the third tier has been invoked, the item's outcome is absent *)
(* exactly when that invocation failed.                                    *)
C19_FinalTierAccepted ==
    (trail.task # 0 /\ Len(trail.kinds) = 3) =>
        /\ tasks[trail.task].done
        /\ (tasks[trail.task].out = "absent") <=> (trail.kinds[3] = "error")

(* C20: after two tiers whose text contained an insufficiency phrase, a    *)
(* third-tier summary above the minimum length is returned as the item's   *)
(* outcome, with or without an insufficiency phrase in it.                 *)
C20_ThirdTierSummaryReturned ==
    (/\ trail.task # 0
     /\ Len(trail.kinds) = 3
     /\ trail.kinds[1] = "insufficient"
     /\ trail.kinds[2] = "insufficient"
     /\ trail.kinds[3] \in {"sufficient", "insufficient"}) =>
        /\ tasks[trail.task].done
        /\ tasks[trail.task].out = "summary"
        /\ tasks[trail.task].tier = 3

C20_Witness ==
    /\ trail.task # 0
    /\ trail.kinds = <<"insufficient", "insufficient", "insufficient">>
    /\ tasks[trail.task].out = "summary"

----------------------------------------------------------------------------
(* Vocabulary of the properties on the assembled report *)

AuditSucceeded == audit = "merged"

\* What follows the draft body in an assembled text signed with sig.
Appended(sig) == (IF AuditSucceeded THEN <<"audit">> ELSE <<>>) \o <<sig>>

LastBlock(t) == t[Len(t)]

(* C21: in the search() call last executed, a failed invocation of the     *)
(* first or second tier is followed by the next tier, a failed invocation  *)
(* of the last tier ends the item with an absent outcome, and no failure   *)
(* leaves search(): nothing is raised into the fan-out and no error chunk  *)
(* is streamed.                                                            *)
C21_TierFailureContained ==
    trail.task # 0 =>
        LET t == tasks[trail.task]
            k == trail.kinds
        IN  /\ (Len(k) < LastTier /\ LastBlock(k) = "error") =>
                    (~t.done /\ t.tier = Len(k) + 1 /\ t.out = "pending")
            /\ (Len(k) = LastTier /\ LastBlock(k) = "error") =>
                    (t.done /\ t.out = "absent")
            /\ pc = "searching"
            /\ ~Happened(H("raise", "search", 0))
            /\ ErrorCount = 0

C21_Witness ==
    /\ trail.task # 0
    /\ trail.kinds = <<"error", "error", "error">>
    /\ tasks[trail.task].out = "absent"
    /\ Len(tasks) >= 2

(* C22: in a run whose writer succeeded, the text of the artifact chunk    *)
(* begins with the report heading.                                         *)
C22_ArtifactBeginsWithHeading ==
    (WriterSucceeded /\ ArtifactCount = 1) => StartsWithHeading(ArtifactText)

(* C23: once the report is ready, the stored report is the draft, then the *)
(* audit block exactly when the audit succeeded, then one signature block; *)
(* the artifact is the same sequence, with the heading in front when the   *)
(* draft lacks it; and from the writer's return on the draft is never      *)
(* changed and stays a prefix of the stored report.                        *)
C23_AppendOnlyAssembly ==
    /\ []((WriterSucceeded /\ PastAudit) =>
            /\ \E sig \in Signatures : report = draft \o Appended(sig)
            /\ \E sig \in Signatures :
                    ArtifactText \in {draft \o Appended(sig),
                                      <<Heading>> \o draft \o Appended(sig)}
            /\ ArtifactCount = 1)
    /\ [](WriterSucceeded =>
            /\ Len(report) >= Len(draft)
            /\ SubSeq(report, 1, Len(draft)) = draft)
    /\ [][WriterSucceeded => draft' = draft]_vars

C23_Witness ==
    /\ pc = "done"
    /\ audit = "failed"
    /\ ~StartsWithHeading(draft)
    /\ StartsWithHeading(ArtifactText)
    /\ Len(report) = Len(draft) + 1
    /\ Len(ArtifactText) = Len(draft) + 2

(* C24: once the report is ready, the signature block at the end of the    *)
(* artifact and the one at the end of the stored report are the same text. *)
C24_SameSignature ==
    (WriterSucceeded /\ PastAudit) => LastBlock(ArtifactText) = LastBlock(report)

----------------------------------------------------------------------------
(* Properties of the helpers *)

RunnerRoles == {"planner", "search", "writer", "critic", "email"}

(* C25: the send_email tool never raises; it answers success exactly for a *)
(* 200 response, and otherwise error with a message; without credentials   *)
(* the provider is not contacted.                                          *)
C25_ToolNeverRaises ==
    call.fn = "send_email" =>
        /\ ~ret.raised
        /\ ret.status \in {"success", "error"}
        /\ (ret.status = "success") <=> (call.arg = "http_200")
        /\ ret.status = "error" => ret.message # "none"
        /\ call.arg = "no_credentials" =>
                (ret.status = "error" /\ ret.message = "not_configured"
                 /\ ~ret.contacted)

C25_Witness ==
    /\ call.fn = "send_email"
    /\ call.arg = "http_other_bad_body"
    /\ ret.status = "error"
    /\ ret.contacted

(* C26: when the email agent's invocation has returned, the status of its  *)
(* result is success or error.                                             *)
C26_StatusSuccessOrError ==
    stage["email"] = "returned" => email_result \in {"success", "error"}

(* C27: an invocation of the planner, searcher, writer or critic whose     *)
(* completion carries no content fails.                                    *)
C27_EmptyContentFails ==
    (call.fn \in RunnerRoles \ {"email"} /\ call.arg.kind = "empty") => ret.raised

(* C28: an invocation of an agent with an output type that does not fail   *)
(* hands its caller an object of that type.                                *)
C28_StructuredOrFails ==
    (call.fn \in {"planner", "writer", "critic"} /\ ~ret.raised) =>
        ret.handed = ExpectedClass(call.fn)

(* C29: a writer completion that is a JSON object never fails, whatever    *)
(* fields are missing, null or empty: absent follow-ups become an empty    *)
(* list, an absent body is the raw content, and an absent summary is the   *)
(* first 200 characters of the body with an ellipsis when the body is      *)
(* longer, the whole body otherwise.                                       *)
C29_WriterFillsFields ==
    (call.fn = "writer" /\ call.arg.kind = "json") =>
        LET a == call.arg
        IN  /\ ~ret.raised
            /\ ret.handed = "ReportData"
            /\ a.followups_field \in {"missing", "null"} =>
                    ret.follow_up_questions = "empty_list"
            /\ a.followups_field = "list" => ret.follow_up_questions = "list"
            /\ IF a.md_field = "text"
               THEN ret.md = a.md /\ ret.chars = a.k
               ELSE ret.md = RawContent /\ ret.chars = a.raw
            /\ ret.chars > 0
            /\ IF a.summary_field = "text"
               THEN ret.short_summary.src = "given"
               ELSE /\ ret.short_summary.src = "markdown"
                    /\ ret.short_summary.ellipsis = (ret.chars > SummaryLimit)
                    /\ ret.short_summary.take =
                            IF ret.chars > SummaryLimit THEN SummaryLimit ELSE ret.chars

C29_Witness ==
    /\ call.fn = "writer"
    /\ call.arg.kind = "json"
    /\ call.arg.md_field = "missing"
    /\ call.arg.summary_field = "null"
    /\ call.arg.followups_field = "missing"
    /\ ret.chars > SummaryLimit
    /\ ret.short_summary.ellipsis

(* C30: a non-blank chunk is taken for the report exactly when it starts   *)
(* with the report heading, or its stripped length is above the threshold  *)
(* and it has two section markers or a known phrase; it is a status chunk  *)
(* otherwise.                                                              *)
C30_ClassifierAsStated ==
    (call.fn = "classify" /\ call.arg.chars > 0) =>
        LET c == call.arg
            stated == \/ c.starts
                      \/ /\ c.chars > LongFormChars
                         /\ (c.n2 + c.n3 >= 2 \/ c.phrase # "none")
        IN  ret.class = IF stated THEN "report" ELSE "status"

----------------------------------------------------------------------------
(* Properties of delivery and of the hand-over to the writer *)

ToolCallCounts == 1..MaxToolCalls

AllAbsent == tasks # <<>> /\ \A i \in DOMAIN tasks : tasks[i].out = "absent"

(* C35: the send_email tool is called at most once in a run, after the     *)
(* artifact has been streamed, however many tool calls the completion of   *)
(* the email agent carries; with delivery disabled or after a fatal        *)
(* failure it is not called at all.                                        *)
C35_AtMostOneSend ==
    /\ sends <= 1
    /\ sends = 1 =>
            /\ ArtifactCount = 1
            /\ stage["email"] = "returned"
            /\ \E k \in ToolCallCounts :
                    /\ Happened(H("send", "email", k))
                    /\ Pos(H("yield", "artifact", 0)) < Pos(H("send", "email", k))
    /\ ~send_email => sends = 0
    /\ pc = "failed" => sends = 0

C35_Witness ==
    /\ pc = "done"
    /\ sends = 1
    /\ \E k \in ToolCallCounts : k > 1 /\ Happened(H("send", "email", k))

(* C38: once the report is ready, the stored report that is passed to the  *)
(* deliverer is the text of the streamed artifact.                         *)
C38_DeliveredEqualsArtifact ==
    (WriterSucceeded /\ PastAudit) => report = ArtifactText

(* C39: when every search item of a non-empty plan ended absent, the       *)
(* fan-out returned an empty list without raising, no search error chunk   *)
(* was streamed, the writer was invoked once, and the run can only have    *)
(* failed through the writer.                                              *)
C39_AllAbsentStillWrites ==
    (Searched /\ AllAbsent) =>
        /\ search_results = <<>>
        /\ ~Happened(H("raise", "search", 0))
        /\ Count("error_searching") = 0
        /\ Happened(H("invoke", "writer", 0))
        /\ Count("writer_start") = 1
        /\ pc \in {"writing", "auditing", "delivering", "done", "failed"}
        /\ pc = "failed" => stage["writer"] = "raised"

C39_Witness ==
    /\ pc = "auditing"
    /\ AllAbsent
    /\ Len(tasks) >= 2
    /\ search_results = <<>>
    /\ WriterSucceeded

(* C37: an invocation of the search agent makes at most five completion   *)
(* calls, and when all five carried tool calls the summary it returns is   *)
(* text written by the assistant.                                          *)
C37_LoopReturnsAssistantSummary ==
    call.fn = "search_loop" =>
        /\ ret.calls <= MaxIterations
        /\ (Len(call.arg) = MaxIterations /\ call.arg[MaxIterations] \in ToolKinds) =>
                (~ret.raised /\ ret.out = "summary")

----------------------------------------------------------------------------
(* Properties of the UI handler *)

\* The chunks received so far that were taken for status text, and those
\* taken for the report, in arrival order.
StatusChunks == SelectSeq(ui.got, LAMBDA g : g.class = "status")

ReportChunks == SelectSeq(ui.got, LAMBDA g : g.class = "report")

(* C31: the status text is the concatenation of the status chunks in       *)
(* arrival order, the report text and the report store both hold the last  *)
(* report chunk (the placeholder and the empty string before the first),   *)
(* and a blank chunk enters neither.                                       *)
C31_RenderedInOrder ==
    ui.pc \in {"streaming", "ended"} =>
        /\ ui.frame.status = [i \in 1..Len(StatusChunks) |-> StatusChunks[i].chunk]
        /\ IF ReportChunks = <<>>
           THEN ui.frame.report = Placeholder /\ ui.frame.store = EmptyText
           ELSE /\ ui.frame.report = ReportChunks[Len(ReportChunks)].chunk
                /\ ui.frame.store = ui.frame.report
        /\ \A i \in DOMAIN ui.got :
                ui.got[i].chunk = BlankChunk => ui.got[i].class = "skipped"

C31_Witness ==
    /\ ui.pc = "ended"
    /\ Len(ui.frame.status) >= 3
    /\ ui.frame.report.kind = "artifact"
    /\ ui.frame.status[Len(ui.frame.status)].kind = "complete"
    /\ \E i \in DOMAIN ui.got : ui.got[i].chunk = BlankChunk /\ i < Len(ui.got)

(* C36: the handler takes for the report exactly the chunk the run         *)
(* streamed as the artifact, so the report pane only ever holds the        *)
(* placeholder or the artifact.                                            *)
C36_OnlyArtifactIsReport ==
    ui.pc \in {"streaming", "ended"} =>
        /\ \A i \in DOMAIN ui.got :
                ui.got[i].class = "report" <=> ui.got[i].chunk.kind = "artifact"
        /\ ui.frame.report.kind \in {"placeholder", "artifact"}

----------------------------------------------------------------------------
(* Properties of two interleaved runs *)

(* C32: whenever no plan_searches call is executing, the planner agent's   *)
(* instructions are the original ones, and every plan_searches call,       *)
(* returned or raised, left them as it found them.                         *)
C32_InstructionsRestored ==
    duo.pc = "on" =>
        /\ duo.instructions = OriginalInstructions
        /\ \A r \in Runs : \A i \in DOMAIN duo.run[r].log :
                duo.run[r].log[i].stage = "planner" =>
                    duo.run[r].log[i].after = duo.run[r].log[i].before

C32_Witness ==
    /\ duo.pc = "on"
    /\ \E r \in Runs :
            /\ duo.run[r].at = "plan_failed"
            /\ \E i \in DOMAIN duo.run[r].log :
                    /\ duo.run[r].log[i].stage = "planner"
                    /\ duo.run[r].log[i].used # duo.run[r].log[i].before
    /\ \E r \in Runs : duo.run[r].at = "planned"

(* C34: every stage invocation of a run reads that run's own trace id.     *)
C34_OwnTraceObserved ==
    duo.pc = "on" =>
        \A r \in Runs : \A i \in DOMAIN duo.run[r].log :
            duo.run[r].log[i].seen = TraceId(r)

----------------------------------------------------------------------------
(* Properties of the polling loop *)

(* C40: once the loop has retrieved a status other than queued,            *)
(* in_progress and requires_action it has returned, and the outputs        *)
(* submitted in a round are one per requested call, carrying its id.       *)
C40_LoopExitsOnSettled ==
    poll.pc # "off" =>
        /\ poll.seen \in RunStatuses \ (WaitStatuses \cup {"requires_action"})
                => poll.pc = "returned"
        /\ Len(poll.submitted) = Len(poll.asked)
        /\ \A i \in DOMAIN poll.asked :
                poll.submitted[i].tool_call_id = poll.asked[i].id

====
